---- MODULE Spec2Model ----
(***************************************************************************)
(* The address book service: the address store behind the CRUD handlers    *)
(* and the proximity query (radius filter, distance annotation, ranking).  *)
(*                                                                         *)
(* Units.  Coordinates are integers in micro-degrees (82000000 = 82.0      *)
(* degrees).  Distances and radii are integers in metres (0.001 km), and a *)
(* reported distance_km, which has two decimals, is an integer count of    *)
(* hundredths of a kilometre (101 = 1.01 km).  Strings are sequences of    *)
(* characters.  A nullable value is None (<<>>) or Some(v) (<<v>>).        *)
(*                                                                         *)
(* Every handler is an "async def" without an await, run on one event      *)
(* loop: a request runs from validation to response without interleaving,  *)
(* so each handler is one action.                                          *)
(***************************************************************************)
EXTENDS Integers, Sequences, FiniteSets, TLC

VARIABLES
    store,             \* rows of table "addresses", in rowid (id) order
    now,               \* logical clock behind datetime.utcnow
    lastOp,            \* the handler that served the last request
    status,            \* HTTP status of the last response
    exc,               \* exception raised while serving the last request
    query,             \* body of the last proximity query
    dbOk,              \* whether the store answered the last request
    nearby_addresses,  \* what get_addresses_within_radius returned
    response,          \* body of the last proximity response
    reads,             \* store reads made by the last proximity query
    distCalls,         \* calculate_distance calls made by the last query
    repeated           \* the last query repeats the query before it

vars == <<store, now, lastOp, status, exc, query, dbOk, nearby_addresses,
          response, reads, distCalls, repeated>>

----------------------------------------------------------------------------
(* Bounds of the model *)

MaxRecords == 2

MaxClock == 2

MaxFieldsSet == 1

----------------------------------------------------------------------------
(* Nullable values *)

None == <<>>

Some(v) == <<v>>

Val(o) == o[1]

----------------------------------------------------------------------------
(* Inputs the requests are drawn from *)

StrInputs == { <<>>, <<" ">>, <<" ", "a">> }

LatInputs == { 82000000, -82000000, 90000001 }

LonInputs == { 0, 65006, 65135, 180000000, 180000001 }

QueryLatInputs == { 82000000, -90000001 }

QueryLonInputs == { 0, -180000001 }

RadiusInputs == { -1, 0, 1007, 1008, 20100000 }

IdInputs == 1 .. MaxClock

TextFields == { "street", "city", "country" }

Fields == TextFields \cup { "latitude", "longitude" }

Inputs(k) == IF k \in TextFields THEN StrInputs
             ELSE IF k = "latitude" THEN LatInputs ELSE LonInputs

----------------------------------------------------------------------------
(* str.strip() *)

RECURSIVE LStrip(_)
LStrip(s) == IF s # <<>> /\ Head(s) = " " THEN LStrip(Tail(s)) ELSE s

RECURSIVE RStrip(_)
RStrip(s) == IF s # <<>> /\ s[Len(s)] = " "
             THEN RStrip(SubSeq(s, 1, Len(s) - 1)) ELSE s

strip(s) == RStrip(LStrip(s))

----------------------------------------------------------------------------
(* Request validation: the pydantic models *)

max_length(k) == IF k = "street" THEN 255 ELSE 100

\* Field(..., min_length=1, max_length=n), then validate_not_empty.
TextOk(k, o) ==
    /\ o # None
    /\ Len(Val(o)) >= 1
    /\ Len(Val(o)) <= max_length(k)
    /\ strip(Val(o)) # <<>>

\* Field(..., ge=-90, le=90)
LatitudeOk(o) == o # None /\ Val(o) >= -90000000 /\ Val(o) <= 90000000

\* Field(..., ge=-180, le=180)
LongitudeOk(o) == o # None /\ Val(o) >= -180000000 /\ Val(o) <= 180000000

FieldOk(k, o) == IF k \in TextFields THEN TextOk(k, o)
                 ELSE IF k = "latitude" THEN LatitudeOk(o) ELSE LongitudeOk(o)

\* What the validators hand on: validate_not_empty returns v.strip().
Cleaned(k, o) == IF k \in TextFields /\ o # None THEN Some(strip(Val(o))) ELSE o

\* AddressCreate: every field required.
AddressCreateValid(body) == \A k \in Fields : FieldOk(k, body[k])

\* AddressUpdate: every field Optional, None accepted as it stands.
AddressUpdateValid(body) ==
    \A k \in DOMAIN body : body[k] = None \/ FieldOk(k, body[k])

\* model_dump() of a validated body (exclude_unset: DOMAIN body is the fields set).
model_dump(body) == [k \in DOMAIN body |-> Cleaned(k, body[k])]

\* Mutant of RadiusOk: the bound written ge=0.
RadiusOkOrZero(r) == r >= 0

\* Field(..., gt=0)
RadiusOk(r) == r > 0

\* LocationQuery
LocationQueryValid(q) ==
    /\ LatitudeOk(Some(q.latitude))
    /\ LongitudeOk(Some(q.longitude))
    /\ RadiusOk(q.radius_km)

----------------------------------------------------------------------------
(* The table "addresses" *)

Ids(s) == { s[i].id : i \in 1 .. Len(s) }

\* INTEGER PRIMARY KEY without AUTOINCREMENT: one more than the largest rowid.
NextId(s) == IF s = <<>> THEN 1
             ELSE 1 + (CHOOSE m \in Ids(s) : \A n \in Ids(s) : n <= m)

\* Mutant of NotNullOk: the columns declared without nullable=False.
NotNullUnchecked(row) == TRUE

\* nullable=False on street, city, country, latitude, longitude.
NotNullOk(row) == \A k \in Fields : row[k] # None

\* Address(**address.model_dump()), with the column defaults at insert.
NewRow(s, data, t) ==
    [id |-> NextId(s), street |-> data.street, city |-> data.city,
     country |-> data.country, latitude |-> data.latitude,
     longitude |-> data.longitude, created_at |-> t, updated_at |-> t]

\* for field, value in update_data.items(): setattr(db_address, field, value)
Patched(row, data) ==
    [k \in DOMAIN row |-> IF k \in DOMAIN data THEN data[k] ELSE row[k]]

\* db.query(Address).filter(Address.id == address_id).first()
get_address(s, address_id) ==
    IF address_id \in Ids(s)
    THEN CHOOSE i \in 1 .. Len(s) : s[i].id = address_id
    ELSE 0

Without(s, i) == SubSeq(s, 1, i - 1) \o SubSeq(s, i + 1, Len(s))

----------------------------------------------------------------------------
(* The distance calculator *)

(***************************************************************************)
(* calculate_distance evaluated in IEEE-754 double precision, as the code  *)
(* computes it (radians, a, c, EARTH_RADIUS_KM * c with 6371.0), on the    *)
(* coordinates the model draws: <<lat1, lon1, lat2, lon2>> in              *)
(* micro-degrees.  a_gt_1 tells that the haversine term a of that pair     *)
(* comes out as 1.0000000000000002, so that 1 - a is negative; metres is   *)
(* the distance in metres, rounded up (every radius of the model is a      *)
(* whole number of metres, so distance <= radius_km is decided exactly).   *)
(* For a pair with a_gt_1, metres is the great-circle distance itself      *)
(* (a taken as 1), which the code never gets to compute.                   *)
(***************************************************************************)
HaversineTable ==
    <<82000000, 0, 82000000, 0>> :> [a_gt_1 |-> FALSE, metres |-> 0]
    @@ <<82000000, 0, 82000000, 65006>> :> [a_gt_1 |-> FALSE, metres |-> 1006]
    @@ <<82000000, 0, 82000000, 65135>> :> [a_gt_1 |-> FALSE, metres |-> 1008]
    @@ <<82000000, 0, 82000000, 180000000>> :> [a_gt_1 |-> FALSE, metres |-> 1779119]
    @@ <<82000000, 0, -82000000, 0>> :> [a_gt_1 |-> FALSE, metres |-> 18235968]
    @@ <<82000000, 0, -82000000, 65006>> :> [a_gt_1 |-> FALSE, metres |-> 18235969]
    @@ <<82000000, 0, -82000000, 65135>> :> [a_gt_1 |-> FALSE, metres |-> 18235969]
    @@ <<82000000, 0, -82000000, 180000000>> :> [a_gt_1 |-> TRUE, metres |-> 20015087]

Haversine(lat1, lon1, lat2, lon2) ==
    HaversineTable[<<Val(lat1), Val(lon1), Val(lat2), Val(lon2)>>]

\* sqrt(1 - a): math.sqrt raises ValueError on a negative argument.
SqrtDomainOk(a_gt_1) == ~a_gt_1

\* The result is [raised |-> the exception, "" for none, value |-> metres].
calculate_distance(lat1, lon1, lat2, lon2) ==
    IF None \in {lat1, lon1, lat2, lon2}
    THEN [raised |-> "TypeError", value |-> 0]      \* radians(None)
    ELSE LET h == Haversine(lat1, lon1, lat2, lon2)
         IN  IF SqrtDomainOk(h.a_gt_1)
             THEN [raised |-> "", value |-> h.metres]
             ELSE [raised |-> "ValueError", value |-> 0]

----------------------------------------------------------------------------
(* The radius filter *)

\* Mutant of WithinRadius: the comparison made at two decimals.
WithinRadiusAtTwoDecimals(distance, radius_km) ==
    distance \div 10 <= radius_km \div 10

\* if distance <= radius_km
WithinRadius(distance, radius_km) == distance <= radius_km

DistanceTo(q, row) ==
    calculate_distance(Some(q.latitude), Some(q.longitude),
                       row.latitude, row.longitude)

\* The first row of the scan whose distance computation raises, 0 for none.
FirstRaise(all_addresses, q) ==
    LET bad == { i \in 1 .. Len(all_addresses) :
                    DistanceTo(q, all_addresses[i]).raised # "" }
    IN  IF bad = {} THEN 0 ELSE CHOOSE i \in bad : \A j \in bad : i <= j

\* Mutant of get_addresses_within_radius: a row whose distance computation
\* raises is skipped, the scan goes on.
get_addresses_skipping_errors(all_addresses, q) ==
    [raised |-> "",
     value |-> SelectSeq(all_addresses,
                  LAMBDA row : /\ DistanceTo(q, row).raised = ""
                               /\ WithinRadius(DistanceTo(q, row).value,
                                               q.radius_km)),
     calls |-> Len(all_addresses)]

\* The loop over all_addresses: an exception leaves the loop and the function.
get_addresses_within_radius(all_addresses, q) ==
    LET k == FirstRaise(all_addresses, q)
    IN  IF k # 0
        THEN [raised |-> DistanceTo(q, all_addresses[k]).raised,
              value |-> <<>>, calls |-> k]
        ELSE [raised |-> "",
              value |-> SelectSeq(all_addresses,
                           LAMBDA row : WithinRadius(DistanceTo(q, row).value,
                                                     q.radius_km)),
              calls |-> Len(all_addresses)]

----------------------------------------------------------------------------
(* The ranker *)

\* Mutant of round2: the distance cut to two decimals.
round2_truncating(distance) == distance \div 10

\* round(distance, 2): metres to hundredths of a kilometre, ties to even.
round2(distance) ==
    LET lo == distance \div 10
        r  == distance % 10
    IN  IF r > 5 \/ (r = 5 /\ lo % 2 = 1) THEN lo + 1 ELSE lo

\* Mutant of addresses_with_distance0: the list kept from the last query.
addresses_with_distance_kept == response

\* addresses_with_distance = []
addresses_with_distance0 == <<>>

\* {**address.__dict__, "distance_km": round(distance, 2)}
address_dict(q, row) ==
    [address |-> row, distance_km |-> round2(DistanceTo(q, row).value)]

Annotated(addresses, q) ==
    addresses_with_distance0
        \o [i \in 1 .. Len(addresses) |-> address_dict(q, addresses[i])]

\* Mutant of SortedPlace: e goes before the entries of equal key.
SortedPlaceBeforeTies(sorted, e) ==
    Cardinality({ i \in 1 .. Len(sorted) :
                    sorted[i].distance_km < e.distance_km })

\* Where list.sort puts e among the sorted entries before it: behind every
\* entry whose key is not greater (the sort is stable).
SortedPlace(sorted, e) ==
    Cardinality({ i \in 1 .. Len(sorted) :
                    sorted[i].distance_km <= e.distance_km })

InsertAt(seq, n, e) == SubSeq(seq, 1, n) \o <<e>> \o SubSeq(seq, n + 1, Len(seq))

\* addresses_with_distance.sort(key=lambda x: x["distance_km"])
RECURSIVE sort(_)
sort(seq) ==
    IF seq = <<>> THEN <<>>
    ELSE LET front == sort(SubSeq(seq, 1, Len(seq) - 1))
             e     == seq[Len(seq)]
         IN  InsertAt(front, SortedPlace(front, e), e)

----------------------------------------------------------------------------
(* Request bodies *)

\* The JSON bodies that set exactly the fields F, each to one of its inputs
\* (or, where nullable, to null).
RECURSIVE Bodies(_, _)
Bodies(F, nullable) ==
    IF F = {} THEN { <<>> }
    ELSE LET k == CHOOSE f \in F : TRUE
         IN  { (k :> v) @@ b :
                 v \in { Some(x) : x \in Inputs(k) }
                          \cup (IF nullable THEN { None } ELSE {}),
                 b \in Bodies(F \ {k}, nullable) }

CreateBodies == Bodies(Fields, FALSE)

FieldSets == { F \in SUBSET Fields : Cardinality(F) <= MaxFieldsSet }

UpdateBodies == [F \in FieldSets |-> Bodies(F, TRUE)]

Queries == [latitude : QueryLatInputs, longitude : QueryLonInputs,
            radius_km : RadiusInputs]

NoQuery == [latitude |-> 0, longitude |-> 0, radius_km |-> 0]

----------------------------------------------------------------------------
(* The handlers *)

Init ==
    /\ store = <<>>
    /\ now = 0
    /\ lastOp = ""
    /\ status = 0
    /\ exc = ""
    /\ query = NoQuery
    /\ dbOk = TRUE
    /\ nearby_addresses = <<>>
    /\ response = <<>>
    /\ reads = 0
    /\ distCalls = 0
    /\ repeated = FALSE

\* The response of a CRUD handler.
Answer(op, st, e, ok) ==
    /\ lastOp' = op
    /\ status' = st
    /\ exc' = e
    /\ dbOk' = ok
    /\ query' = NoQuery
    /\ nearby_addresses' = <<>>
    /\ response' = <<>>
    /\ reads' = 0
    /\ distCalls' = 0
    /\ repeated' = FALSE

\* POST /addresses
create_address(body) ==
    /\ now < MaxClock
    /\ Len(store) < MaxRecords
    /\ IF ~AddressCreateValid(body)
       THEN /\ Answer("create_address", 422, "", TRUE)
            /\ UNCHANGED <<store, now>>
       ELSE \E ok \in BOOLEAN :
            IF ~ok
            THEN /\ Answer("create_address", 500, "OperationalError", FALSE)
                 /\ UNCHANGED <<store, now>>
            ELSE LET db_address == NewRow(store, model_dump(body), now + 1)
                 IN  IF NotNullOk(db_address)
                     THEN /\ store' = Append(store, db_address)
                          /\ now' = now + 1
                          /\ Answer("create_address", 201, "", TRUE)
                     ELSE /\ Answer("create_address", 500, "IntegrityError", TRUE)
                          /\ UNCHANGED <<store, now>>

\* PUT /addresses/{address_id}
update_address(address_id, body) ==
    /\ now < MaxClock
    /\ IF ~AddressUpdateValid(body)
       THEN /\ Answer("update_address", 422, "", TRUE)
            /\ UNCHANGED <<store, now>>
       ELSE \E ok \in BOOLEAN :
            IF ~ok
            THEN /\ Answer("update_address", 500, "OperationalError", FALSE)
                 /\ UNCHANGED <<store, now>>
            ELSE LET i == get_address(store, address_id)
                 IN  IF i = 0
                     THEN /\ Answer("update_address", 404, "", TRUE)
                          /\ UNCHANGED <<store, now>>
                     ELSE LET db_address == Patched(store[i], model_dump(body))
                          IN  IF db_address = store[i]
                              THEN \* no net change: the flush emits no UPDATE
                                   /\ Answer("update_address", 200, "", TRUE)
                                   /\ UNCHANGED <<store, now>>
                              ELSE IF NotNullOk(db_address)
                              THEN /\ store' = [store EXCEPT ![i] =
                                         [db_address EXCEPT !.updated_at = now + 1]]
                                   /\ now' = now + 1
                                   /\ Answer("update_address", 200, "", TRUE)
                              ELSE \* the commit fails, the session is closed
                                   /\ Answer("update_address", 500, "IntegrityError", TRUE)
                                   /\ UNCHANGED <<store, now>>

\* DELETE /addresses/{address_id}
delete_address(address_id) ==
    \E ok \in BOOLEAN :
    IF ~ok
    THEN /\ Answer("delete_address", 500, "OperationalError", FALSE)
         /\ UNCHANGED <<store, now>>
    ELSE LET i == get_address(store, address_id)
         IN  IF i = 0
             THEN /\ Answer("delete_address", 404, "", TRUE)
                  /\ UNCHANGED <<store, now>>
             ELSE /\ store' = Without(store, i)
                  /\ Answer("delete_address", 204, "", TRUE)
                  /\ UNCHANGED now

\* db.query(Address).all(): every row, in rowid order.
query_all(s) == s

\* Mutant of SessionClosed: the rows the query loaded are written back.
SessionCommitted(s) ==
    [i \in 1 .. Len(s) |-> [s[i] EXCEPT !.updated_at = now + 1]]

\* get_db closes the session; the handler added, changed and committed nothing.
SessionClosed(s) == s

\* The response of the proximity handler.
NearbyAnswer(st, e, ok, near, resp, rd, calls) ==
    /\ status' = st
    /\ exc' = e
    /\ dbOk' = ok
    /\ nearby_addresses' = near
    /\ response' = resp
    /\ reads' = rd
    /\ distCalls' = calls
    /\ repeated' = (lastOp = "get_nearby_addresses" /\ query' = query /\ dbOk = ok)

\* POST /addresses/nearby
get_nearby_addresses(location) ==
    /\ lastOp' = "get_nearby_addresses"
    /\ query' = location
    /\ store' = SessionClosed(store)
    /\ UNCHANGED now
    /\ IF ~LocationQueryValid(location)
       THEN NearbyAnswer(422, "", TRUE, <<>>, <<>>, 0, 0)
       ELSE \E ok \in BOOLEAN :
            IF ~ok
            THEN NearbyAnswer(500, "OperationalError", FALSE, <<>>, <<>>, 1, 0)
            ELSE LET addresses ==
                         get_addresses_within_radius(query_all(store), location)
                 IN  IF addresses.raised # ""
                     THEN NearbyAnswer(500, addresses.raised, TRUE, <<>>, <<>>, 1,
                                       addresses.calls)
                     ELSE NearbyAnswer(200, "", TRUE, addresses.value,
                                       sort(Annotated(addresses.value, location)),
                                       1, addresses.calls + Len(addresses.value))

Next ==
    \/ \E body \in CreateBodies : create_address(body)
    \/ \E address_id \in IdInputs, F \in FieldSets :
          \E body \in UpdateBodies[F] : update_address(address_id, body)
    \/ \E address_id \in IdInputs : delete_address(address_id)
    \/ \E location \in Queries : get_nearby_addresses(location)

Spec == Init /\ [][Next]_vars

----------------------------------------------------------------------------
(* Properties *)

Range(seq) == { seq[i] : i \in 1 .. Len(seq) }

IsNearby == lastOp = "get_nearby_addresses"

Served == IsNearby /\ status = 200

\* The great-circle distance from the reference of q to a row, in metres.
GreatCircle(q, row) ==
    Haversine(Some(q.latitude), Some(q.longitude), row.latitude, row.longitude).metres

\* The place of the row with this id in the store's listing.
Listed(id) == CHOOSE i \in 1 .. Len(store) : store[i].id = id

QueryInRange(q) ==
    /\ q.latitude >= -90000000 /\ q.latitude <= 90000000
    /\ q.longitude >= -180000000 /\ q.longitude <= 180000000
    /\ q.radius_km > 0

\* C1: for every store content, reference and radius_km > 0, the radius
\* filter returns exactly the stored records whose distance to the reference
\* is <= radius_km (boundary included), and nothing that is not stored.
C1_FilterReturnsExactlyWithin ==
    (IsNearby /\ QueryInRange(query) /\ dbOk) =>
        /\ exc = ""
        /\ Range(nearby_addresses) \subseteq Range(store)
        /\ \A i \in 1 .. Len(store) :
              (store[i] \in Range(nearby_addresses))
                  <=> (GreatCircle(query, store[i]) <= query.radius_km)

\* C2: the returned list is sorted non-decreasing by distance_km, holds
\* exactly one entry per record that passed the radius filter, and each
\* distance_km is the record's distance rounded to 2 decimal places.
C2_RankedOutput ==
    Served =>
        /\ Len(response) = Len(nearby_addresses)
        /\ \A i \in 1 .. Len(response) - 1 :
              response[i].distance_km <= response[i + 1].distance_km
        /\ \A row \in Range(nearby_addresses) :
              Cardinality({ i \in 1 .. Len(response) :
                              response[i].address = row }) = 1
        /\ \A i \in 1 .. Len(response) :
              /\ response[i].address \in Range(nearby_addresses)
              /\ 10 * response[i].distance_km
                     - DistanceTo(query, response[i].address).value \in -5 .. 5

C2_Witness ==
    /\ Served
    /\ Len(response) = 2
    /\ response[1].address.id > response[2].address.id
    /\ response[1].distance_km < response[2].distance_km

\* C3: two returned records with equal rounded distance_km keep the relative
\* order in which the store listed them.
C3_StableTies ==
    Served =>
        \A i, j \in 1 .. Len(response) :
            (i < j /\ response[i].distance_km = response[j].distance_km)
                => Listed(response[i].address.id) < Listed(response[j].address.id)

C3_Witness ==
    /\ Served
    /\ Len(response) = 2
    /\ response[1].distance_km = response[2].distance_km
    /\ DistanceTo(query, response[1].address).value
           > DistanceTo(query, response[2].address).value

C5_RejectedBeforeCore ==
    (IsNearby /\ ~QueryInRange(query)) =>
        /\ status = 422
        /\ reads = 0
        /\ distCalls = 0
        /\ nearby_addresses = <<>>
        /\ response = <<>>

C5_Witness ==
    /\ IsNearby
    /\ status = 422
    /\ query.radius_km = 0
    /\ query.latitude = 82000000
    /\ query.longitude = 0
    /\ store # <<>>

\* C6: calculate_distance is total on valid coordinates: it returns a
\* non-negative distance for every stored record and valid reference, and
\* never raises a domain error from sqrt(1 - a).
C6_DistanceTotal ==
    (IsNearby /\ QueryInRange(query)) =>
        /\ exc # "ValueError"
        /\ \A i \in 1 .. Len(store) :
              /\ DistanceTo(query, store[i]).raised = ""
              /\ DistanceTo(query, store[i]).value >= 0

\* C7: a query returns no partial result: when the store read or a
\* candidate's distance computation fails it ends in an error carrying no
\* records, and otherwise every stored record is returned or lies farther
\* than radius_km.
C7_NoPartialResults ==
    (IsNearby /\ status # 422) =>
        /\ status \in {200, 500}
        /\ (~dbOk \/ \E i \in 1 .. Len(store) :
                        DistanceTo(query, store[i]).raised # "")
              => (status = 500 /\ response = <<>>)
        /\ status = 200 =>
              \A i \in 1 .. Len(store) :
                  \/ \E j \in 1 .. Len(response) : response[j].address = store[i]
                  \/ DistanceTo(query, store[i]).value > query.radius_km

C7_Witness ==
    /\ IsNearby
    /\ status = 500
    /\ exc = "ValueError"
    /\ response = <<>>
    /\ Len(store) = 2
    /\ DistanceTo(query, store[1]).raised = ""
    /\ DistanceTo(query, store[1]).value <= query.radius_km

\* C8: a query is read-only: whether it succeeds or fails, the stored
\* records and all their fields (updated_at too) are after it what they were
\* before, and a query that reaches the core reads the store exactly once.
C8_ReadOnly ==
    [][lastOp' = "get_nearby_addresses"
        => (store' = store /\ (status' # 422 => reads' = 1))]_vars

C8_Witness ==
    /\ Served
    /\ reads = 1
    /\ response # <<>>
    /\ \E i \in 1 .. Len(store) : store[i].updated_at > store[i].created_at

\* C9: after any sequence of create, update and delete calls (an update
\* that sets a field to null included) every stored record has a latitude in
\* [-90, 90], a longitude in [-180, 180] and non-empty street, city and
\* country, so no query meets a missing or out-of-range coordinate.
C9_StoredRecordsValid ==
    /\ exc # "TypeError"
    /\ \A i \in 1 .. Len(store) :
          /\ \A k \in Fields : store[i][k] # None
          /\ Val(store[i].latitude) >= -90000000
          /\ Val(store[i].latitude) <= 90000000
          /\ Val(store[i].longitude) >= -180000000
          /\ Val(store[i].longitude) <= 180000000
          /\ \A k \in TextFields : Len(Val(store[i][k])) >= 1

C9_Witness ==
    /\ lastOp = "update_address"
    /\ status = 500
    /\ exc = "IntegrityError"
    /\ store # <<>>

\* C10 as claimed: every returned entry's reported distance_km (after
\* rounding) is <= radius_km, whatever the radius.
C10_ReportedWithinRadius ==
    Served =>
        \A j \in 1 .. Len(response) :
            10 * response[j].distance_km <= query.radius_km

\* C10 as amended: every returned entry's unrounded distance is <=
\* radius_km and its reported distance_km is <= radius_km rounded to 2
\* decimal places, hence <= radius_km when that is a multiple of 0.01.
C10_ReportedWithinRoundedRadius ==
    Served =>
        \A j \in 1 .. Len(response) :
            /\ DistanceTo(query, response[j].address).value <= query.radius_km
            /\ response[j].distance_km <= round2(query.radius_km)
            /\ query.radius_km % 10 = 0
                  => 10 * response[j].distance_km <= query.radius_km

C10_Witness ==
    /\ Served
    /\ \E j \in 1 .. Len(response) :
          /\ 10 * response[j].distance_km > query.radius_km
          /\ DistanceTo(query, response[j].address).value <= query.radius_km

====
